---- MODULE Spec2Model ----
(***************************************************************************)
(* Model of src/scraper.py: AsyncScraper (scrape, _scrape_one, _fetch,     *)
(* _allowed_by_robots, export_csv) running on a cooperative event loop.    *)
(* One action is one run of a coroutine between two suspension points.     *)
(***************************************************************************)
EXTENDS Integers, Sequences, FiniteSets, TLC

\* ------------------------------------------------------------------ bounds
NumUnits == 2          \* length of the URL list given to scrape
MaxConcurrency == 2    \* largest configured concurrency
MaxRetries == 2        \* largest configured max_retries
MaxBackoff == 2        \* largest configured backoff_factor (in time units)

Units == 1 .. NumUnits

\* ------------------------------------------------------------------ inputs
\* The URLs a list may contain: two of one origin, one of another origin,
\* and a string urlparse rejects (ValueError: Invalid IPv6 URL).
URLS == {"http://a/p", "http://a/q", "http://b/p", "http://[::1"}

Origins == {"http://a", "http://b"}

\* urlparse(url) raises ValueError on this input (line 121).
urlparse_raises(url) == url = "http://[::1"

\* base = f"{parsed.scheme}://{parsed.netloc}" (line 122)
base_of(url) ==
  CASE url = "http://a/p" -> "http://a"
    [] url = "http://a/q" -> "http://a"
    [] url = "http://b/p" -> "http://b"

path_of(url) ==
  CASE url = "http://a/p" -> "/p"
    [] url = "http://a/q" -> "/q"
    [] url = "http://b/p" -> "/p"

\* The robots.txt each origin serves: the set of paths it disallows.
RobotsFixture(origin) == IF origin = "http://a" THEN {"/q"} ELSE {}

\* Response bodies of a content endpoint: empty, a page the parser handles,
\* a page the parser raises on.
Bodies == {"", "x", "!"}

\* Field names as sequences of code points, so that sorted() is lexical.
K_url == <<117, 114, 108>>
K_title == <<116, 105, 116, 108, 101>>
K_description == <<100, 101, 115, 99, 114, 105, 112, 116, 105, 111, 110>>

\* ------------------------------------------------------------------ config
\* ScraperConfig (lines 28-41): no field is validated. Durations are counted
\* in units of half a second, so the default backoff_factor 0.5 is 1.
DefaultBackoff == 1

\* The backoff factor has no influence on the control flow: the concurrency
\* and the retry limit are varied with the default factor, the factor is
\* varied with a concurrency of one.
ValidConfigs ==
  [concurrency : 1 .. MaxConcurrency,
   max_retries : 0 .. MaxRetries,
   backoff_factor : {DefaultBackoff},
   request_timeout : {1}]

BackoffConfigs ==
  [concurrency : {1},
   max_retries : 0 .. MaxRetries,
   backoff_factor : 0 .. MaxBackoff,
   request_timeout : {1}]

DefaultLike == [concurrency |-> 1, max_retries |-> 1,
                backoff_factor |-> DefaultBackoff, request_timeout |-> 1]

InvalidConfigs ==
  {[DefaultLike EXCEPT !.concurrency = c] : c \in {-1, 0}}
  \cup {[DefaultLike EXCEPT !.max_retries = -1]}
  \cup {[DefaultLike EXCEPT !.request_timeout = t] : t \in {-1, 0}}
  \cup {[DefaultLike EXCEPT !.backoff_factor = -1]}

ConfigIsValid(c) ==
  /\ c.concurrency >= 1
  /\ c.max_retries >= 0
  /\ c.request_timeout > 0
  /\ c.backoff_factor >= 0

VARIABLES
  config,        \* self.config
  urls,          \* the list passed to scrape
  scrapeState,   \* "rejected", "constructed", "gathering", "returned", "raised"
  pc,            \* per unit: where its _scrape_one coroutine is suspended
  attempt,       \* per unit: the loop variable of _fetch
  wait,          \* per unit: the last computed backoff wait
  semaphore,     \* self.semaphore: free slots
  waiters,       \* self.semaphore: FIFO of units blocked in acquire
  robot_cache,   \* self._robot_cache: base -> rule set
  results,       \* self.results
  file,          \* lines written by export_csv
  exportState,   \* "none", "warned", "written", "raised"
  \* observation of the run (no effect on control flow)
  attempts,      \* per unit: content requests issued
  robotsGets,    \* per origin: robots.txt requests issued
  lookup,        \* per unit: "none", "hit", "fetched", "failed"
  allowed,       \* per unit: "none", "yes", "no": result of _allowed_by_robots
  outcome,       \* per unit: how the unit ended
  parserCalls,   \* per unit: calls of self.parser
  acquired,      \* per unit: semaphore slots acquired so far
  backoffs,      \* per unit: backoff sleeps started so far
  resultUnits    \* the unit that appended each element of results

progVars == <<config, urls, scrapeState, pc, attempt, wait, semaphore, waiters,
              robot_cache, results, file, exportState>>
obsVars == <<attempts, robotsGets, lookup, allowed, outcome, parserCalls,
             acquired, backoffs, resultUnits>>
vars == <<progVars, obsVars>>

\* ------------------------------------------------------- robots rule sets
\* robotparser.RobotFileParser() as constructed at line 124: nothing read.
NewRobotFileParser == [last_checked |-> FALSE, disallow |-> {}]

\* rp.parse(lines) at line 127: records the rules and marks the parser read.
parse(rp, disallowed) == [last_checked |-> TRUE, disallow |-> disallowed]

\* rp.can_fetch(agent, url) at line 132: a parser that has read nothing
\* answers False ("we must assume that no url is allowable").
can_fetch(rp, url) ==
  IF ~rp.last_checked THEN FALSE ELSE path_of(url) \notin rp.disallow

\* ------------------------------------------------------------- the parser
\* A record is an ordered mapping: a sequence of <<key, value>> pairs in
\* insertion order.
default_parser(url, html) ==
  << <<K_url, url>>, <<K_title, html>>, <<K_description, "">> >>

ShortRecord(url, html) == << <<K_url, url>>, <<K_title, html>> >>

\* self.parser(url, html) (line 92) is any function supplied by the caller.
\* The one used here raises on the page "!" (as default_parser does on a
\* page whose title has no string) and emits no description for origin b.
parser_raises_on(url, html) == html = "!"

parser(url, html) ==
  IF base_of(url) = "http://a" THEN default_parser(url, html)
  ELSE ShortRecord(url, html)

\* --------------------------------------------------------------- export
KeysOf(rec) == [i \in 1 .. Len(rec) |-> rec[i][1]]

KeySet(rec) == {rec[i][1] : i \in 1 .. Len(rec)}

Get(rec, k, default) ==
  IF k \in KeySet(rec)
  THEN rec[CHOOSE i \in 1 .. Len(rec) : rec[i][1] = k][2]
  ELSE default

\* str.__lt__: lexical order on code points.
RECURSIVE LexLess(_, _)
LexLess(s, t) ==
  IF s = <<>> THEN t # <<>>
  ELSE IF t = <<>> THEN FALSE
  ELSE IF Head(s) # Head(t) THEN Head(s) < Head(t)
  ELSE LexLess(Tail(s), Tail(t))

RECURSIVE Insert(_, _)
Insert(k, seq) ==
  IF seq = <<>> THEN <<k>>
  ELSE IF LexLess(k, Head(seq)) THEN <<k>> \o seq
  ELSE <<Head(seq)>> \o Insert(k, Tail(seq))

RECURSIVE sorted(_)
sorted(seq) == IF seq = <<>> THEN <<>> ELSE Insert(Head(seq), sorted(Tail(seq)))

\* column order taken from the first record as it is
FieldNames_Unsorted(res) == KeysOf(res[1])

\* keys = sorted(self.results[0].keys()) (line 76)
FieldNames(res) == sorted(KeysOf(res[1]))

SeqToSet(seq) == {seq[i] : i \in 1 .. Len(seq)}

\* csv.DictWriter._dict_to_list: a key outside fieldnames raises ValueError,
\* a missing key is written as the empty string.
HasExtraFields(rec, keys) == KeySet(rec) \ SeqToSet(keys) # {}

Row(rec, keys) == [i \in 1 .. Len(keys) |-> Get(rec, keys[i], "")]

\* index of the first record DictWriter refuses, Len+1 when there is none
FirstRefused(res, keys) ==
  LET bad == {i \in 1 .. Len(res) : HasExtraFields(res[i], keys)}
  IN IF bad = {} THEN Len(res) + 1
     ELSE CHOOSE i \in bad : \A j \in bad : i <= j

\* export_csv (lines 70-81): what ends up in the file and how the call ends.
export_csv(res) ==
  IF res = <<>>
  THEN [state |-> "warned", lines |-> <<>>]
  ELSE LET keys == FieldNames(res)
           n == FirstRefused(res, keys)
       IN [state |-> IF n <= Len(res) THEN "raised" ELSE "written",
           lines |-> <<keys>> \o [i \in 1 .. n - 1 |-> Row(res[i], keys)]]

\* ------------------------------------------------------------------- Init
\* AsyncScraper.__init__ (lines 50-59). asyncio.Semaphore(value) raises
\* ValueError for value < 0 and accepts 0.
\* The URL lists: the units of a list are tasks of one kind that the event
\* loop may run in any order, so a list and its permutations have the same
\* behaviours up to the numbering of the units; one list stands for each
\* multiset of URLs.
Rank(url) ==
  CASE url = "http://a/p" -> 1
    [] url = "http://a/q" -> 2
    [] url = "http://b/p" -> 3
    [] url = "http://[::1" -> 4

URLLists ==
  {l \in [Units -> URLS] :
     \A i, j \in Units : i < j => Rank(l[i]) <= Rank(l[j])}

InitWith(configs) ==
  /\ config \in configs
  /\ urls \in URLLists
  /\ scrapeState = IF config.concurrency < 0 THEN "rejected" ELSE "constructed"
  /\ semaphore = config.concurrency
  /\ waiters = <<>>
  /\ robot_cache = [o \in {} |-> NewRobotFileParser]
  /\ results = <<>>
  /\ file = <<>>
  /\ exportState = "none"
  /\ pc = [u \in Units |-> "start"]
  /\ attempt = [u \in Units |-> 0]
  /\ wait = [u \in Units |-> 0]
  /\ attempts = [u \in Units |-> 0]
  /\ robotsGets = [o \in Origins |-> 0]
  /\ lookup = [u \in Units |-> "none"]
  /\ allowed = [u \in Units |-> "none"]
  /\ outcome = [u \in Units |-> "none"]
  /\ parserCalls = [u \in Units |-> 0]
  /\ acquired = [u \in Units |-> 0]
  /\ backoffs = [u \in Units |-> 0]
  /\ resultUnits = <<>>

Init == InitWith(ValidConfigs)

InitBackoff == InitWith(BackoffConfigs)

InitAnyConfig == InitWith(InvalidConfigs \cup {DefaultLike})

\* ------------------------------------------------------------- scheduling
\* The aiohttp session is closed when scrape leaves its "async with".
SessionClosed == scrapeState \in {"returned", "raised"}

\* gather does not cancel the other tasks when one raises: they stay on the
\* event loop.
Scheduled == scrapeState \in {"gathering", "raised"}

\* scrape (lines 64-68): open the session, create one task per URL, wait.
scrape ==
  /\ scrapeState = "constructed"
  /\ scrapeState' = "gathering"
  /\ UNCHANGED <<config, urls, pc, attempt, wait, semaphore, waiters,
                 robot_cache, results, file, exportState, obsVars>>

\* -------------------------------------------------------------- semaphore
\* acquire that never finds the semaphore locked
SlotFree_Unbounded == TRUE

\* asyncio.Semaphore.locked() negated: acquire returns without suspending.
SlotFree == semaphore > 0 /\ waiters = <<>>

\* asyncio.Semaphore.release (leaving "async with", line 105): the slot is
\* handed to the first waiter, which resumes in the delay; otherwise the
\* counter grows.
PcRelease(u, next) ==
  IF waiters = <<>> THEN [pc EXCEPT ![u] = next]
  ELSE [pc EXCEPT ![u] = next, ![Head(waiters)] = "delay"]

\* a slot given back on the success path only
release_NotOnFailure(u, next) ==
  IF next = "backoff"
  THEN /\ pc' = [pc EXCEPT ![u] = next]
       /\ UNCHANGED <<semaphore, waiters, acquired>>
  ELSE /\ pc' = PcRelease(u, next)
       /\ IF waiters = <<>>
          THEN /\ semaphore' = semaphore + 1
               /\ UNCHANGED <<waiters, acquired>>
          ELSE /\ waiters' = Tail(waiters)
               /\ acquired' = [acquired EXCEPT ![Head(waiters)] = @ + 1]
               /\ UNCHANGED semaphore

release(u, next) ==
  /\ pc' = PcRelease(u, next)
  /\ IF waiters = <<>>
     THEN /\ semaphore' = semaphore + 1
          /\ UNCHANGED <<waiters, acquired>>
     ELSE /\ waiters' = Tail(waiters)
          /\ acquired' = [acquired EXCEPT ![Head(waiters)] = @ + 1]
          /\ UNCHANGED semaphore

\* ---------------------------------------------------------- retrying fetch
\* range(self.config.max_retries) (line 103)
AttemptRange(max_retries) == 0 .. max_retries - 1

\* backoff keyed to the 1-based attempt number
BackoffWait_OneBased(backoff_factor, failed_attempt) ==
  backoff_factor * 2 ^ (failed_attempt + 1)

\* wait = self.config.backoff_factor * (2 ** attempt) (line 112)
BackoffWait(backoff_factor, failed_attempt) == backoff_factor * 2 ^ failed_attempt

\* a first attempt that issues its request without the delay
loop_head_SkipsFirstDelay(u, att) ==
  /\ attempt' = [attempt EXCEPT ![u] = att]
  /\ IF att \notin AttemptRange(config.max_retries)
     THEN /\ pc' = [pc EXCEPT ![u] = "done"]
          /\ outcome' = [outcome EXCEPT ![u] = "unavailable"]
          /\ UNCHANGED <<semaphore, waiters, acquired>>
     ELSE IF SlotFree
     THEN /\ semaphore' = semaphore - 1
          /\ acquired' = [acquired EXCEPT ![u] = @ + 1]
          /\ pc' = [pc EXCEPT ![u] = IF att = 0 THEN "request" ELSE "delay"]
          /\ UNCHANGED <<waiters, outcome>>
     ELSE /\ waiters' = Append(waiters, u)
          /\ pc' = [pc EXCEPT ![u] = "wait_sem"]
          /\ UNCHANGED <<semaphore, acquired, outcome>>

\* lines 103-105 and 116-117: the head of the loop with loop variable att.
\* Either the attempts are used up and _fetch returns None, or the unit
\* takes a slot and starts the delay, or it queues on the semaphore.
loop_head(u, att) ==
  /\ attempt' = [attempt EXCEPT ![u] = att]
  /\ IF att \notin AttemptRange(config.max_retries)
     THEN /\ pc' = [pc EXCEPT ![u] = "done"]
          /\ outcome' = [outcome EXCEPT ![u] = "unavailable"]
          /\ UNCHANGED <<semaphore, waiters, acquired>>
     ELSE IF SlotFree
     THEN /\ semaphore' = semaphore - 1
          /\ acquired' = [acquired EXCEPT ![u] = @ + 1]
          /\ pc' = [pc EXCEPT ![u] = "delay"]
          /\ UNCHANGED <<waiters, outcome>>
     ELSE /\ waiters' = Append(waiters, u)
          /\ pc' = [pc EXCEPT ![u] = "wait_sem"]
          /\ UNCHANGED <<semaphore, acquired, outcome>>

\* ----------------------------------------------------------- policy cache
\* _fetch going on to the retry loop after a negative answer
Consult_NoShortCircuit(u, rp) ==
  /\ allowed' = [allowed EXCEPT ![u] = IF can_fetch(rp, urls[u]) THEN "yes" ELSE "no"]
  /\ loop_head(u, 0)

\* line 132 and lines 99-103: consult the rule set; a disallowed URL makes
\* _fetch return None at once, an allowed one enters the retry loop.
Consult(u, rp) ==
  IF can_fetch(rp, urls[u])
  THEN /\ allowed' = [allowed EXCEPT ![u] = "yes"]
       /\ loop_head(u, 0)
  ELSE /\ allowed' = [allowed EXCEPT ![u] = "no"]
       /\ pc' = [pc EXCEPT ![u] = "done"]
       /\ outcome' = [outcome EXCEPT ![u] = "disallowed"]
       /\ UNCHANGED <<attempt, semaphore, waiters, acquired>>

\* a lookup that never finds the origin cached
Cached_Never(base) == FALSE

\* line 123: base in self._robot_cache
Cached(base) == base \in DOMAIN robot_cache

\* a store that keeps an entry already present (setdefault)
CacheStore_KeepFirst(base, rp) ==
  IF base \in DOMAIN robot_cache THEN robot_cache
  ELSE [o \in DOMAIN robot_cache \cup {base} |->
          IF o = base THEN rp ELSE robot_cache[o]]

\* line 131: self._robot_cache[base] = rp
CacheStore(base, rp) ==
  [o \in DOMAIN robot_cache \cup {base} |->
     IF o = base THEN rp ELSE robot_cache[o]]

\* a robots.txt request that takes a semaphore slot like a content request
robots_request_Gated(u) ==
  /\ SlotFree
  /\ semaphore' = semaphore - 1
  /\ pc' = [pc EXCEPT ![u] = "robots_get"]
  /\ robotsGets' = [robotsGets EXCEPT ![base_of(urls[u])] = @ + 1]
  /\ UNCHANGED <<allowed, lookup, outcome, attempt, waiters, acquired>>

\* lines 124-126: the robots.txt request is issued on the session directly,
\* outside the semaphore and the timeout.
robots_request(u) ==
  /\ pc' = [pc EXCEPT ![u] = "robots_get"]
  /\ robotsGets' = [robotsGets EXCEPT ![base_of(urls[u])] = @ + 1]
  /\ UNCHANGED <<allowed, lookup, outcome, attempt, semaphore, waiters,
                 acquired>>

\* _scrape_one -> _fetch -> _allowed_by_robots up to its first suspension
\* (lines 86-87, 98-99, 119-126): urlparse may raise, a cached origin is
\* answered at once, an uncached one starts the robots.txt request.
allowed_by_robots(u) ==
  /\ Scheduled
  /\ pc[u] = "start"
  /\ IF urlparse_raises(urls[u])
     THEN /\ pc' = [pc EXCEPT ![u] = "done"]
          /\ outcome' = [outcome EXCEPT ![u] = "raised"]
          /\ UNCHANGED <<allowed, lookup, robotsGets, attempt, semaphore,
                         waiters, acquired>>
     ELSE IF Cached(base_of(urls[u]))
     THEN /\ lookup' = [lookup EXCEPT ![u] = "hit"]
          /\ Consult(u, robot_cache[base_of(urls[u])])
          /\ UNCHANGED robotsGets
     ELSE robots_request(u)
  /\ UNCHANGED <<config, urls, scrapeState, wait, robot_cache, results, file,
                 exportState, attempts, parserCalls, backoffs, resultUnits>>

\* lines 126-132, the request answered: the body is parsed into rp.
robots_parsed(u) ==
  /\ ~SessionClosed
  /\ lookup' = [lookup EXCEPT ![u] = "fetched"]
  /\ robot_cache' = CacheStore(base_of(urls[u]),
                       parse(NewRobotFileParser,
                             RobotsFixture(base_of(urls[u]))))
  /\ Consult(u, robot_cache'[base_of(urls[u])])

\* lines 128-132, the request raised: rp stays as constructed.
robots_failed(u) ==
  /\ lookup' = [lookup EXCEPT ![u] = "failed"]
  /\ robot_cache' = CacheStore(base_of(urls[u]), NewRobotFileParser)
  /\ Consult(u, robot_cache'[base_of(urls[u])])

robots_response(u) ==
  /\ Scheduled
  /\ pc[u] = "robots_get"
  /\ \/ robots_parsed(u)
     \/ robots_failed(u)
  /\ UNCHANGED <<config, urls, scrapeState, wait, results, file, exportState,
                 attempts, robotsGets, parserCalls, backoffs, resultUnits>>

\* ---------------------------------------------------------- attempts
\* lines 106-108: the delay is over, the request is issued.
delay_done(u) ==
  /\ Scheduled
  /\ pc[u] = "delay"
  /\ pc' = [pc EXCEPT ![u] = "request"]
  /\ attempts' = [attempts EXCEPT ![u] = @ + 1]
  /\ UNCHANGED <<config, urls, scrapeState, attempt, wait, semaphore, waiters,
                 robot_cache, results, file, exportState, robotsGets, lookup,
                 allowed, outcome, parserCalls, acquired, backoffs,
                 resultUnits>>

\* _scrape_one, lines 88-96: an empty body ends the unit; otherwise the
\* parser is called, its record appended or its exception logged.
\* a record put at the front of the store
parser_returns_Prepends(u, html) ==
  /\ results' = <<parser(urls[u], html)>> \o results
  /\ resultUnits' = <<u>> \o resultUnits
  /\ outcome' = [outcome EXCEPT ![u] = "parsed"]
  /\ parserCalls' = [parserCalls EXCEPT ![u] = @ + 1]

parser_returns(u, html) ==
  /\ results' = Append(results, parser(urls[u], html))
  /\ resultUnits' = Append(resultUnits, u)
  /\ outcome' = [outcome EXCEPT ![u] = "parsed"]
  /\ parserCalls' = [parserCalls EXCEPT ![u] = @ + 1]

\* a parser failure that still leaves a record in the store
parser_raises_Appends(u) ==
  /\ outcome' = [outcome EXCEPT ![u] = "parser_failed"]
  /\ parserCalls' = [parserCalls EXCEPT ![u] = @ + 1]
  /\ results' = Append(results, <<>>)
  /\ resultUnits' = Append(resultUnits, u)

parser_raises(u) ==
  /\ outcome' = [outcome EXCEPT ![u] = "parser_failed"]
  /\ parserCalls' = [parserCalls EXCEPT ![u] = @ + 1]
  /\ UNCHANGED <<results, resultUnits>>

scrape_one_tail(u, html) ==
  IF html = ""
  THEN /\ outcome' = [outcome EXCEPT ![u] = "empty"]
       /\ UNCHANGED <<results, resultUnits, parserCalls>>
  ELSE IF parser_raises_on(urls[u], html)
  THEN parser_raises(u)
  ELSE parser_returns(u, html)

\* a success that falls through to the backoff instead of returning
fetch_success_KeepsLooping(u) ==
  /\ ~SessionClosed
  /\ config.request_timeout > 0
  /\ \E html \in Bodies : scrape_one_tail(u, html)
  /\ release(u, "backoff")
  /\ UNCHANGED <<wait, backoffs>>

\* lines 108-110: a success status; the slot is released, the body returned.
fetch_success(u) ==
  /\ ~SessionClosed
  /\ config.request_timeout > 0
  /\ \E html \in Bodies : scrape_one_tail(u, html)
  /\ release(u, "done")
  /\ UNCHANGED <<wait, backoffs>>

\* lines 108-115: a failure status, a timeout or a connection error; the
\* slot is released and the backoff sleep starts.
fetch_failure(u) ==
  /\ release(u, "backoff")
  /\ wait' = [wait EXCEPT ![u] = BackoffWait(config.backoff_factor, attempt[u])]
  /\ backoffs' = [backoffs EXCEPT ![u] = @ + 1]
  /\ UNCHANGED <<results, resultUnits, outcome, parserCalls>>

response(u) ==
  /\ Scheduled
  /\ pc[u] = "request"
  /\ \/ fetch_success(u)
     \/ fetch_failure(u)
  /\ UNCHANGED <<config, urls, scrapeState, attempt, robot_cache, file,
                 exportState, attempts, robotsGets, lookup, allowed>>

\* a retry that asks the policy cache again before it goes on
backoff_done_Rechecks(u) ==
  /\ Scheduled
  /\ pc[u] = "backoff"
  /\ IF can_fetch(robot_cache[base_of(urls[u])], urls[u])
     THEN loop_head(u, attempt[u] + 1)
     ELSE /\ pc' = [pc EXCEPT ![u] = "done"]
          /\ outcome' = [outcome EXCEPT ![u] = "disallowed"]
          /\ UNCHANGED <<attempt, semaphore, waiters, acquired>>
  /\ UNCHANGED <<config, urls, scrapeState, wait, robot_cache, results, file,
                 exportState, attempts, robotsGets, lookup, allowed,
                 parserCalls, backoffs, resultUnits>>

\* line 115 finished: line 103 advances the loop variable and the head of
\* the loop runs again.
backoff_done(u) ==
  /\ Scheduled
  /\ pc[u] = "backoff"
  /\ loop_head(u, attempt[u] + 1)
  /\ UNCHANGED <<config, urls, scrapeState, wait, robot_cache, results, file,
                 exportState, attempts, robotsGets, lookup, allowed,
                 parserCalls, backoffs, resultUnits>>

\* ------------------------------------------------------------ orchestrator
\* asyncio.gather (line 68) without return_exceptions: it returns when every
\* task has finished, and raises as soon as one task has raised.
gather_returns ==
  /\ scrapeState = "gathering"
  /\ \A u \in Units : pc[u] = "done" /\ outcome[u] # "raised"
  /\ scrapeState' = "returned"
  /\ UNCHANGED <<config, urls, pc, attempt, wait, semaphore, waiters,
                 robot_cache, results, file, exportState, obsVars>>

gather_raises ==
  /\ scrapeState = "gathering"
  /\ \E u \in Units : outcome[u] = "raised"
  /\ scrapeState' = "raised"
  /\ UNCHANGED <<config, urls, pc, attempt, wait, semaphore, waiters,
                 robot_cache, results, file, exportState, obsVars>>

\* export_csv (lines 70-81), called once the crawl is over.
export ==
  /\ SessionClosed
  /\ exportState = "none"
  /\ exportState' = export_csv(results).state
  /\ file' = export_csv(results).lines
  /\ UNCHANGED <<config, urls, scrapeState, pc, attempt, wait, semaphore,
                 waiters, robot_cache, results, obsVars>>

Next ==
  \/ scrape
  \/ \E u \in Units : allowed_by_robots(u)
  \/ \E u \in Units : robots_response(u)
  \/ \E u \in Units : delay_done(u)
  \/ \E u \in Units : response(u)
  \/ \E u \in Units : backoff_done(u)
  \/ gather_returns
  \/ gather_raises
  \/ export

Spec == Init /\ [][Next]_vars

SpecBackoff == InitBackoff /\ [][Next]_vars

\* The event loop runs every task that is ready, every sleep ends and every
\* request is answered, fails or times out: each unit's next step is taken
\* when it stays possible, and so is the wake-up of scrape by gather. The
\* semaphore hands a released slot to its first waiter, which needs no
\* fairness of its own. Nothing obliges the caller to call scrape or
\* export_csv.
UnitStep(u) ==
  \/ allowed_by_robots(u)
  \/ robots_response(u)
  \/ delay_done(u)
  \/ response(u)
  \/ backoff_done(u)

Fairness ==
  /\ \A u \in Units : WF_vars(UnitStep(u))
  /\ WF_vars(gather_returns)
  /\ WF_vars(gather_raises)

SpecFair == Init /\ [][Next]_vars /\ Fairness

SpecAnyConfig == InitAnyConfig /\ [][Next]_vars


\* ================================================================== claims
InFlight == {u \in Units : pc[u] \in {"delay", "request"}}

Count(seq, x) == Cardinality({i \in 1 .. Len(seq) : seq[i] = x})

RECURSIVE Pow2(_)
Pow2(n) == IF n = 0 THEN 1 ELSE 2 * Pow2(n - 1)

UnitsOf(origin) ==
  {u \in Units : ~urlparse_raises(urls[u]) /\ base_of(urls[u]) = origin}

\* C1: with a concurrency limit N >= 1, the number of content-fetch attempts
\* in flight (holding a slot: in the delay or in the request) never exceeds N.
C1_ConcurrencyCap ==
  config.concurrency >= 1 => Cardinality(InFlight) <= config.concurrency

C1_Witness ==
  /\ Cardinality(InFlight) = config.concurrency
  /\ waiters # <<>>

\* C2: an allowed URL whose endpoint fails on every attempt is attempted
\* exactly max_retries + 1 times before _fetch gives up with None.
C2_GiveUpAfterRetriesPlusOne ==
  \A u \in Units :
    outcome[u] = "unavailable" => attempts[u] = config.max_retries + 1

\* C3: a unit whose robots.txt request raised is told its URL is allowed.
C3_FailOpen ==
  \A u \in Units : lookup[u] = "failed" => allowed[u] = "yes"

\* C4: a URL the rule set disallows gets no content request, no semaphore
\* slot, no parser call and no record; its unit ends as a normal skip.
C4_PolicyShortCircuit ==
  \A u \in Units :
    allowed[u] = "no" =>
      /\ attempts[u] = 0
      /\ acquired[u] = 0
      /\ parserCalls[u] = 0
      /\ Count(resultUnits, u) = 0
      /\ pc[u] = "done"
      /\ outcome[u] = "disallowed"

C4_Witness ==
  /\ scrapeState = "returned"
  /\ \E u \in Units : lookup[u] = "fetched" /\ allowed[u] = "no"

\* C5: once scrape has returned, the store holds exactly one record for each
\* unit that was allowed, fetched a body and whose parser call returned, and
\* none for a unit that was disallowed, unavailable or whose parser raised.
C5_Isolation ==
  scrapeState = "returned" =>
    /\ Len(results) = Len(resultUnits)
    /\ Len(results) = Cardinality({u \in Units : outcome[u] = "parsed"})
    /\ \A u \in Units :
         /\ outcome[u] = "parsed" =>
              /\ Count(resultUnits, u) = 1
              /\ allowed[u] = "yes"
              /\ parserCalls[u] = 1
         /\ outcome[u] \in {"disallowed", "unavailable", "parser_failed"} =>
              Count(resultUnits, u) = 0
    /\ \A i \in 1 .. Len(results) :
         Get(results[i], K_url, "") = urls[resultUnits[i]]

C5_Witness ==
  /\ scrapeState = "returned"
  /\ Len(results) = 1
  /\ \E a, b \in Units :
       outcome[a] = "parsed" /\ outcome[b] = "parser_failed"

\* C6: scrape never raises, and it returns only when every unit has ended.
C6_WaitsForAllUnits ==
  /\ scrapeState # "raised"
  /\ scrapeState = "returned" => \A u \in Units : pc[u] = "done"

\* C7: the backoff wait after the failed attempt with 0-based index i is
\* backoff_factor * 2^i; no wait has been inserted before the first failure.
C7_BackoffSchedule ==
  \A u \in Units :
    /\ wait[u] = IF backoffs[u] = 0 THEN 0
                 ELSE config.backoff_factor * Pow2(backoffs[u] - 1)
    /\ pc[u] = "backoff" => backoffs[u] = attempts[u]

C7_Witness ==
  \E u \in Units :
    /\ config.backoff_factor = 2
    /\ pc[u] = "request"
    /\ attempts[u] = 2
    /\ wait[u] = 2

\* C8 as claimed: at most one robots.txt request per origin, whatever the
\* interleaving.
C8_OneGetPerOrigin == \A o \in Origins : robotsGets[o] <= 1

\* C8 amended: per origin at least one robots.txt request once a unit of it
\* has looked it up, at most one per unit of that origin and never a retry;
\* a request starts only while the origin has no cache entry, and it is not
\* counted as a fetch attempt.
C8_State ==
  \A o \in Origins :
    /\ robotsGets[o] =
         Cardinality({u \in UnitsOf(o) :
                        pc[u] = "robots_get" \/ lookup[u] \in {"fetched", "failed"}})
    /\ (\E u \in UnitsOf(o) : pc[u] # "start") => robotsGets[o] >= 1

C8_Step ==
  \A o \in Origins :
    robotsGets'[o] # robotsGets[o] =>
      /\ robotsGets'[o] = robotsGets[o] + 1
      /\ o \notin DOMAIN robot_cache
      /\ attempts' = attempts
      /\ acquired' = acquired

C8_GetOnlyOnCacheMiss == [](C8_State) /\ [][C8_Step]_vars

C8_Witness == \E o \in Origins : robotsGets[o] = 2 /\ o \in DOMAIN robot_cache

\* C9: exporting an empty store warns and writes nothing; exporting records
\* that share a key set writes the lexically sorted keys of the first record
\* as header, then one row per record in store order, each row equal as a
\* mapping to its record.
LexBefore(s, t) ==
  \E n \in 0 .. Len(s) :
    /\ n <= Len(t)
    /\ \A j \in 1 .. n : s[j] = t[j]
    /\ \/ n = Len(s) /\ n < Len(t)
       \/ n < Len(s) /\ n < Len(t) /\ s[n + 1] < t[n + 1]

SharedKeySet(res) == \A i \in 1 .. Len(res) : KeySet(res[i]) = KeySet(res[1])

RecordMapping(rec) ==
  [k \in KeySet(rec) |-> rec[CHOOSE i \in 1 .. Len(rec) : rec[i][1] = k][2]]

RowMapping(header, row) ==
  [k \in SeqToSet(header) |->
     row[CHOOSE i \in 1 .. Len(header) : header[i] = k]]

C9_Step ==
  (exportState = "none" /\ exportState' # "none") =>
    /\ results = <<>> => exportState' = "warned" /\ file' = <<>>
    /\ (results # <<>> /\ SharedKeySet(results)) =>
         /\ exportState' = "written"
         /\ Len(file') = Len(results) + 1
         /\ SeqToSet(file'[1]) = KeySet(results[1])
         /\ \A i \in 1 .. Len(file'[1]) - 1 :
              LexBefore(file'[1][i], file'[1][i + 1])
         /\ \A i \in 1 .. Len(results) :
              RowMapping(file'[1], file'[i + 1]) = RecordMapping(results[i])

C9_Export == [][C9_Step]_vars

C9_Witness ==
  /\ exportState = "written"
  /\ Len(results) = 2
  /\ Len(file) = 3
  /\ SharedKeySet(results)

\* C10: under an invalid configuration no robots.txt request and no content
\* request is ever issued.
C10_InvalidConfigRejected ==
  ~ConfigIsValid(config) =>
    /\ \A o \in Origins : robotsGets[o] = 0
    /\ \A u \in Units : attempts[u] = 0


\* C11: a unit that got a success response, whatever the body, has called
\* the parser exactly once; a disallowed or unavailable unit never has.
C11_ExtractorOnEverySuccess ==
  \A u \in Units :
    pc[u] = "done" =>
      /\ outcome[u] \in {"empty", "parsed", "parser_failed"} => parserCalls[u] = 1
      /\ outcome[u] \in {"disallowed", "unavailable"} => parserCalls[u] = 0

\* C12: when every attempt of a URL has failed, the backoff sleeps number
\* one less than the attempts: none follows the last failure.
C12_NoBackoffAfterLastFailure ==
  \A u \in Units :
    (outcome[u] = "unavailable" /\ attempts[u] >= 1) =>
      backoffs[u] = attempts[u] - 1


\* C13: slots are conserved: the slots out of the semaphore are exactly
\* those of the units in the delay or the request, so a unit in the policy
\* lookup, the backoff or past its fetch holds none; only units blocked in
\* acquire are queued; every slot is free once scrape has returned.
C13_SlotsConserved ==
  /\ semaphore >= 0
  /\ semaphore + Cardinality(InFlight) = config.concurrency
  /\ \A i \in 1 .. Len(waiters) : pc[waiters[i]] = "wait_sem"
  /\ \A u \in Units : pc[u] = "wait_sem" => Count(waiters, u) = 1
  /\ scrapeState = "returned" =>
       semaphore = config.concurrency /\ waiters = <<>>

C13_Witness ==
  \E u, v \in Units :
    /\ pc[u] = "backoff"
    /\ pc[v] = "request"
    /\ backoffs[v] >= 1
    /\ semaphore = config.concurrency - 1

\* C14: the first attempt answered with a success status ends the fetch: it
\* was preceded by failed attempts only, each followed by its backoff, and
\* afterwards the unit makes no attempt, takes no slot and sleeps no more.
Succeeded(u) == outcome[u] \in {"empty", "parsed", "parser_failed"}

C14_State ==
  \A u \in Units :
    Succeeded(u) =>
      /\ pc[u] = "done"
      /\ attempts[u] = backoffs[u] + 1
      /\ attempt[u] = backoffs[u]
      /\ acquired[u] = attempts[u]

C14_Step ==
  \A u \in Units :
    Succeeded(u) =>
      /\ pc'[u] = "done"
      /\ attempts'[u] = attempts[u]
      /\ acquired'[u] = acquired[u]
      /\ backoffs'[u] = backoffs[u]
      /\ wait'[u] = wait[u]

C14_FirstSuccessReturns == [](C14_State) /\ [][C14_Step]_vars

C14_Witness ==
  /\ scrapeState = "returned"
  /\ config.max_retries = 2
  /\ \E u, v \in Units :
       /\ Succeeded(u) /\ attempts[u] = 1
       /\ Succeeded(v) /\ attempts[v] = 2 /\ backoffs[v] = 1

\* C15: every attempt, the first included, acquires a slot, then waits the
\* delay holding it, then issues its request, then releases the slot.
C15_State ==
  \A u \in Units :
    /\ acquired[u] = attempts[u] + (IF pc[u] = "delay" THEN 1 ELSE 0)
    /\ pc[u] = "delay" => semaphore < config.concurrency

C15_Step ==
  \A u \in Units :
    /\ (pc[u] # "request" /\ pc'[u] = "request") =>
         /\ pc[u] = "delay"
         /\ attempts'[u] = attempts[u] + 1
         /\ semaphore' = semaphore
    /\ (pc[u] # "delay" /\ pc'[u] = "delay") =>
         acquired'[u] = acquired[u] + 1
    /\ (pc[u] = "request" /\ pc'[u] # "request") =>
         \/ semaphore' = semaphore + 1
         \/ waiters # <<>> /\ waiters' = Tail(waiters)
    /\ attempts'[u] # attempts[u] => pc[u] = "delay"

C15_AttemptOrder == [](C15_State) /\ [][C15_Step]_vars

C15_Witness ==
  \E u \in Units :
    /\ pc[u] = "request"
    /\ attempt[u] = 0
    /\ attempts[u] = 1
    /\ acquired[u] = 1


\* C16 as claimed: two units that both fetched the rules of one origin take
\* the same decision for the same URL.
FetchedRules(u) == lookup[u] \in {"fetched", "failed"}

C16_SameDecision ==
  \A u, v \in Units :
    (FetchedRules(u) /\ FetchedRules(v) /\ urls[u] = urls[v]) =>
      allowed[u] = allowed[v]

\* C16 amended: each lookup that fetched stores the rule set of its own
\* response over the entry; two lookups with the same kind of response
\* (both answered, both failed) decide alike and leave the same entry; with
\* different kinds the last write stays. An entry is never removed, a lookup
\* that finds it leaves it alone, and only a lookup already in flight
\* replaces it.
RulesOf(kind, origin) ==
  IF kind = "fetched"
  THEN [last_checked |-> TRUE, disallow |-> RobotsFixture(origin)]
  ELSE [last_checked |-> FALSE, disallow |-> {}]

C16_State ==
  /\ \A u, v \in Units :
       (FetchedRules(u) /\ lookup[u] = lookup[v] /\ urls[u] = urls[v]) =>
         allowed[u] = allowed[v]
  /\ \A o \in DOMAIN robot_cache :
       \E u \in UnitsOf(o) :
         FetchedRules(u) /\ robot_cache[o] = RulesOf(lookup[u], o)
  /\ \A o \in DOMAIN robot_cache : \A k \in {"fetched", "failed"} :
       (\A u \in UnitsOf(o) : FetchedRules(u) => lookup[u] = k) =>
         robot_cache[o] = RulesOf(k, o)

C16_Step ==
  /\ DOMAIN robot_cache \subseteq DOMAIN robot_cache'
  /\ \A u \in Units :
       (lookup[u] = "none" /\ lookup'[u] # "none") =>
         IF lookup'[u] = "hit"
         THEN robot_cache' = robot_cache
         ELSE robot_cache'[base_of(urls[u])] =
                RulesOf(lookup'[u], base_of(urls[u]))
  /\ \A o \in DOMAIN robot_cache :
       robot_cache'[o] # robot_cache[o] =>
         \E u \in UnitsOf(o) : pc[u] = "robots_get" /\ lookup'[u] # "none"
  /\ \A u \in Units :
       (pc[u] = "start" /\ pc'[u] = "robots_get") =>
         base_of(urls[u]) \notin DOMAIN robot_cache

C16_LastWriteStays == [](C16_State) /\ [][C16_Step]_vars

C16_Witness ==
  \E u, v \in Units :
    /\ urls[u] = "http://a/p" /\ urls[v] = "http://a/p"
    /\ lookup[u] = "fetched" /\ allowed[u] = "yes"
    /\ lookup[v] = "failed" /\ allowed[v] = "no"
    /\ robot_cache["http://a"] = RulesOf("failed", "http://a")


\* C17: a robots.txt request is not gated by the semaphore: it starts
\* whatever the number of free slots, takes none, queues for none and holds
\* none while in flight, so it can be in flight while every slot is held by
\* a content attempt.
PolicyFetches == {u \in Units : pc[u] = "robots_get"}

C17_State ==
  \A u \in PolicyFetches :
    /\ acquired[u] = 0
    /\ Count(waiters, u) = 0
    /\ semaphore + Cardinality(InFlight) = config.concurrency

C17_Step ==
  \A u \in Units :
    (pc[u] # "robots_get" /\ pc'[u] = "robots_get") =>
      /\ pc[u] = "start"
      /\ semaphore' = semaphore
      /\ waiters' = waiters
      /\ acquired' = acquired

C17_PolicyFetchUngated == [](C17_State) /\ [][C17_Step]_vars

C17_Witness ==
  /\ semaphore = 0
  /\ Cardinality(InFlight) = config.concurrency
  /\ PolicyFetches # {}
  /\ \E u \in PolicyFetches : robotsGets[base_of(urls[u])] = 1


\* C18: the store is append-only and in completion order: a step leaves it
\* unchanged or adds exactly one record at its end, namely the record of
\* the unit whose parser call returns in that step; nothing already stored
\* is removed, moved or changed, whatever the position of the URL in the
\* list.
Completes(u) == outcome[u] # "parsed" /\ outcome'[u] = "parsed"

C18_Step ==
  /\ \/ results' = results /\ resultUnits' = resultUnits
     \/ /\ Len(results') = Len(results) + 1
        /\ SubSeq(results', 1, Len(results)) = results
        /\ \E u \in Units :
             /\ Completes(u)
             /\ resultUnits' = Append(resultUnits, u)
             /\ Get(results'[Len(results')], K_url, "") = urls[u]
  /\ \A u \in Units : Completes(u) => Len(results') = Len(results) + 1

C18_State ==
  /\ Len(results) = Len(resultUnits)
  /\ \A u \in Units : Count(resultUnits, u) = IF outcome[u] = "parsed" THEN 1 ELSE 0

C18_AppendOnly == [](C18_State) /\ [][C18_Step]_vars

C18_Witness ==
  /\ resultUnits = <<2, 1>>
  /\ Get(results[1], K_url, "") = urls[2]
  /\ Get(results[2], K_url, "") = urls[1]
  /\ urls[1] # urls[2]


\* C19: once scrape is running with a concurrency of at least one, every
\* unit blocked on the semaphore is eventually admitted, every unit
\* eventually ends, and scrape eventually returns.
C19_Liveness ==
  /\ \A u \in Units : (pc[u] = "wait_sem") ~> (pc[u] = "delay")
  /\ \A u \in Units : (scrapeState = "gathering") ~> (pc[u] = "done")
  /\ (scrapeState = "gathering") ~> (scrapeState = "returned")


\* C20: the policy is consulted once per unit, before its first attempt, and
\* the answer stays: a unit holds or waits for a slot, or has issued a
\* request, only after its lookup ended with "allowed", with the origin in
\* the cache; a retry goes to the next loop index without a new lookup,
\* whatever the cache entry has become, so an allowed unit ends only by a
\* success or with the loop used up.
Attempting(u) ==
  \/ pc[u] \in {"wait_sem", "delay", "request", "backoff"}
  \/ attempts[u] > 0
  \/ acquired[u] > 0

C20_State ==
  \A u \in Units :
    /\ (lookup[u] = "none") = (allowed[u] = "none")
    /\ Attempting(u) =>
         /\ allowed[u] = "yes"
         /\ base_of(urls[u]) \in DOMAIN robot_cache
    /\ (allowed[u] = "yes" /\ pc[u] = "done") =>
         /\ outcome[u] \in {"empty", "parsed", "parser_failed", "unavailable"}
         /\ outcome[u] = "unavailable" =>
              /\ attempt[u] = config.max_retries
              /\ attempts[u] = Cardinality(AttemptRange(config.max_retries))
    /\ outcome[u] = "disallowed" => (allowed[u] = "no" /\ attempts[u] = 0)

C20_Step ==
  \A u \in Units :
    /\ lookup[u] # "none" =>
         (lookup'[u] = lookup[u] /\ allowed'[u] = allowed[u])
    /\ (pc[u] = "backoff" /\ pc'[u] # "backoff") =>
         /\ attempt'[u] = attempt[u] + 1
         /\ robotsGets' = robotsGets
         /\ IF attempt'[u] \in AttemptRange(config.max_retries)
            THEN pc'[u] \in {"delay", "wait_sem"}
            ELSE pc'[u] = "done" /\ outcome'[u] = "unavailable"

C20_PolicyCheckedOnce == [](C20_State) /\ [][C20_Step]_vars

\* a unit found allowed is on its second request while the entry of its
\* origin, overwritten by a lookup that failed, now refuses its URL
C20_Witness ==
  \E u \in Units :
    /\ allowed[u] = "yes"
    /\ pc[u] = "request"
    /\ attempts[u] >= 2
    /\ ~can_fetch(robot_cache[base_of(urls[u])], urls[u])

====
